---- MODULE Spec2Model ----
(***************************************************************************)
(* Model of process_data.py: the streaming reconstruction of tables from   *)
(* the element list of an Adobe PDF Extract result (extract_tables), the   *)
(* finalisation of one table into a row matrix (assemble_rows) and the     *)
(* order in which main loads the input and writes its output files.        *)
(*                                                                         *)
(* Strings are sequences of one-character strings, so that whitespace      *)
(* normalisation, joining and stripping are computed, not assumed.         *)
(* A path is the sequence of its non-empty "/"-separated segments; a       *)
(* segment is [name, idx, tail]: the leading run of letters (with digits   *)
(* for the heading tags H1..H6), the bracketed index (0 when the segment   *)
(* has no "[n]" suffix) and whatever trails it ("" on a well-formed one).  *)
(***************************************************************************)
EXTENDS Integers, Sequences, FiniteSets, TLC

\* ------------------------------------------------------------------ bounds
MaxElems  == 3   \* elements of the stream consumed by one run
MaxLevel  == 3   \* heading levels drawn for the input (the code accepts 1..6)
MaxTable  == 2   \* Table, Table[2], ...
MaxRow    == 2   \* TR[1] .. TR[MaxRow]
MaxCol    == 2   \* TD[1] .. TD[MaxCol], TH[1] .. TH[MaxCol]
MaxNumCol == 3   \* largest declared NumCol attribute
MaxSampleRows == 7   \* rows of the tables drawn for the exports

\* ------------------------------------------------------------------ values
NBSP == "nbsp"                       \* the character U+00A0
Whitespace == {" ", "\t", "\n", NBSP}
NoPage == -1                         \* element.get("Page") is None
NoTitle == [set |-> FALSE, val |-> <<>>]          \* title is None
SomeTitle(s) == [set |-> TRUE, val |-> s]
EmptyMap == [k \in {} |-> 0]                      \* {} / defaultdict with no key

Put(f, k, v) == [x \in (DOMAIN f) \cup {k} |-> IF x = k THEN v ELSE f[x]]
Without(f, ks) == [x \in (DOMAIN f) \ ks |-> f[x]]
SetMax(S) == CHOOSE m \in S : \A x \in S : x <= m
SetMin(S) == CHOOSE m \in S : \A x \in S : m <= x
Max2(a, b) == IF a >= b THEN a ELSE b

\* ------------------------------------------------------------- text helpers
\* text.replace(U+00A0, " ")
ReplaceNbsp(text) == [i \in 1..Len(text) |-> IF text[i] = NBSP THEN " " ELSE text[i]]

\* re.sub(r"\s+", " ", text): every maximal run of whitespace becomes one space
RECURSIVE CollapseWs(_)
CollapseWs(text) ==
    IF text = <<>> THEN <<>>
    ELSE IF Head(text) \in Whitespace
         THEN IF Len(text) > 1 /\ text[2] \in Whitespace
              THEN CollapseWs(Tail(text))
              ELSE <<" ">> \o CollapseWs(Tail(text))
         ELSE <<Head(text)>> \o CollapseWs(Tail(text))

\* str.strip(): drop leading and trailing whitespace
RECURSIVE LStrip(_)
LStrip(text) ==
    IF text # <<>> /\ Head(text) \in Whitespace THEN LStrip(Tail(text)) ELSE text
RECURSIVE RStrip(_)
RStrip(text) ==
    IF text # <<>> /\ text[Len(text)] \in Whitespace
    THEN RStrip(SubSeq(text, 1, Len(text) - 1)) ELSE text
Strip(text) == RStrip(LStrip(text))

normalize_fragment(text) == Strip(CollapseWs(ReplaceNbsp(text)))

\* " ".join(fragments)
RECURSIVE Join(_)
Join(fragments) ==
    IF fragments = <<>> THEN <<>>
    ELSE IF Len(fragments) = 1 THEN fragments[1]
    ELSE fragments[1] \o <<" ">> \o Join(Tail(fragments))

\* ------------------------------------------------------------- path helpers
Seg(name, idx) == [name |-> name, idx |-> idx, tail |-> ""]
JunkSeg(name, idx, tail) == [name |-> name, idx |-> idx, tail |-> tail]

\* The segment as the string it is in the path.
SegText(seg) ==
    seg.name \o (IF seg.idx = 0 THEN "" ELSE "[" \o ToString(seg.idx) \o "]") \o seg.tail

\* [A-Za-z]+(\[\d+\])?$ matches a segment of letters with an optional index and
\* nothing after it; the tags H1..H6 carry a digit and do not match.
HeadingLevel(name) ==
    CASE name = "H1" -> 1 [] name = "H2" -> 2 [] name = "H3" -> 3
      [] name = "H4" -> 4 [] name = "H5" -> 5 [] name = "H6" -> 6
      [] OTHER -> 0
parse_segment(seg) ==
    IF seg.tail = "" /\ HeadingLevel(seg.name) = 0
    THEN <<seg.name, IF seg.idx = 0 THEN 1 ELSE seg.idx>>
    ELSE <<SegText(seg), 1>>

\* table_pattern.search(path): the position of the first segment that starts
\* with "Table" (0 when there is none); the match takes the index with it.
TableMatch(path) ==
    LET hits == {i \in 1..Len(path) : path[i].name = "Table"}
    IN IF hits = {} THEN 0 ELSE SetMin(hits)
\* path[: table_match.end()]
TableRoot(path) ==
    LET m == TableMatch(path)
    IN [i \in 1..m |-> IF i = m THEN Seg(path[i].name, path[i].idx) ELSE path[i]]

\* heading_pattern.search(path): the first segment H1..H6.
HeadingMatch(path) ==
    LET hits == {i \in 1..Len(path) : HeadingLevel(path[i].name) > 0}
    IN IF hits = {} THEN 0 ELSE SetMin(hits)
HeadingPath(path) ==
    LET m == HeadingMatch(path)
    IN [i \in 1..m |-> IF i = m THEN Seg(path[i].name, path[i].idx) ELSE path[i]]

\* The loop over the segments after the table root: the last TR gives the row,
\* the last TD or TH gives the raw column index and the cell type (0 / "" = None).
RECURSIVE ScanSegments(_, _)
ScanSegments(segments, acc) ==
    IF segments = <<>> THEN acc
    ELSE LET p == parse_segment(Head(segments))
             next == IF p[1] = "TR" THEN [acc EXCEPT !.row_index = p[2]]
                     ELSE IF p[1] \in {"TD", "TH"}
                          THEN [acc EXCEPT !.col_index = p[2], !.col_type = p[1]]
                          ELSE acc
         IN ScanSegments(Tail(segments), next)
NoCell == [row_index |-> 0, col_index |-> 0, col_type |-> ""]
CellOf(path) == ScanSegments(SubSeq(path, TableMatch(path) + 1, Len(path)), NoCell)

\* ------------------------------------------------------------------- state
VARIABLES
    pc,                 \* where main is: "load", "loop", "returned", "text_written",
                        \* "json_written", "done", "failed"
    error,              \* the exception that ended the run ("" while there is none)
    consumed,           \* elements[:n], the part of the stream the loop has taken
    heading_fragments,  \* heading path -> list of distinct consecutive fragments
    heading_by_level,   \* level -> title
    tables,             \* table root -> table accumulator
    table_order,        \* table roots in creation order
    returned,           \* the list extract_tables returned
    files               \* output file name -> content written by this run

vars == <<pc, error, consumed, heading_fragments, heading_by_level, tables,
          table_order, returned, files>>

\* The loop variable of extract_tables: the element taken last.
element == consumed[Len(consumed)]

\* -------------------------------------------------------------- extraction
current_heading_title(hbl) ==
    IF DOMAIN hbl = {} THEN NoTitle ELSE SomeTitle(hbl[SetMax(DOMAIN hbl)])

\* element.get("Text", "")
TextOf(e) == IF e.hasText THEN e.Text ELSE <<>>


\* Faulty variant of PurgeDeeper: deeper headings stay in scope.
PurgeDeeper_None(hbl, level) == hbl

\* for deeper in [lvl for lvl in heading_by_level if lvl > level]: pop
PurgeDeeper(hbl, level) == Without(hbl, {lvl \in DOMAIN hbl : lvl > level})

\* Lines 60-74: the heading tracker, giving the two maps after the element.
IsHeadingUpdate(e) ==
    /\ TextOf(e) # <<>>
    /\ HeadingMatch(e.Path) > 0
    /\ normalize_fragment(TextOf(e)) # <<>>
HeadingStep(e, hf, hbl) ==
    IF ~IsHeadingUpdate(e) THEN [hf |-> hf, hbl |-> hbl]
    ELSE LET heading_path == HeadingPath(e.Path)
             level == HeadingLevel(e.Path[HeadingMatch(e.Path)].name)
             fragment == normalize_fragment(TextOf(e))
             old == IF heading_path \in DOMAIN hf THEN hf[heading_path] ELSE <<>>
             fragments == IF old = <<>> \/ old[Len(old)] # fragment
                          THEN Append(old, fragment) ELSE old
         IN [hf  |-> Put(hf, heading_path, fragments),
             hbl |-> PurgeDeeper(Put(hbl, level, Join(fragments)), level)]

NewTable(table_root, title, page) ==
    [id |-> table_root, title |-> title, page |-> page, attributes |-> EmptyMap,
     cells |-> EmptyMap, row_meta |-> EmptyMap, column_order |-> EmptyMap]


\* Faulty variants of AssignColumn: the position is assigned on every sight of
\* the pair; the raw index is taken as the position.
AssignColumn_Always(column_order, cell_key) ==
    Put(column_order, cell_key, Cardinality(DOMAIN column_order) + 1)
AssignColumn_RawIndex(column_order, cell_key) ==
    Put(column_order, cell_key, cell_key[2])

\* Lines 130-134: the position of cell_key in its row, assigned on first sight.
AssignColumn(column_order, cell_key) ==
    IF cell_key \notin DOMAIN column_order
    THEN Put(column_order, cell_key, Cardinality(DOMAIN column_order) + 1)
    ELSE column_order

\* Lines 130-141: one accepted fragment goes into the accumulator.
AddFragment(table, cell, fragment) ==
    LET row_index == cell.row_index
        cell_key == <<cell.col_type, cell.col_index>>
        column_order == AssignColumn(
            IF row_index \in DOMAIN table.column_order
            THEN table.column_order[row_index] ELSE EmptyMap, cell_key)
        col_position == column_order[cell_key]
        row_cells == IF row_index \in DOMAIN table.cells
                     THEN table.cells[row_index] ELSE EmptyMap
        old == IF col_position \in DOMAIN row_cells THEN row_cells[col_position] ELSE <<>>
        meta == IF row_index \in DOMAIN table.row_meta
                THEN table.row_meta[row_index]
                ELSE [has_th |-> FALSE, has_td |-> FALSE]
    IN [table EXCEPT
          !.column_order = Put(@, row_index, column_order),
          !.cells = Put(@, row_index, Put(row_cells, col_position, Append(old, fragment))),
          !.row_meta = Put(@, row_index,
                           IF cell.col_type = "TH" THEN [meta EXCEPT !.has_th = TRUE]
                           ELSE [meta EXCEPT !.has_td = TRUE])]


\* Faulty variant of IsAccepted: a fragment that is empty after normalisation
\* is stored too.
IsAccepted_KeepEmpty(e) ==
    /\ TableMatch(e.Path) > 0
    /\ e.Path # TableRoot(e.Path)
    /\ e.hasText
    /\ CellOf(e.Path).row_index # 0
    /\ CellOf(e.Path).col_index # 0
    /\ CellOf(e.Path).col_type # ""

\* Lines 106-129: does the element reach the accumulator?
IsAccepted(e) ==
    /\ TableMatch(e.Path) > 0
    /\ e.Path # TableRoot(e.Path)
    /\ e.hasText
    /\ CellOf(e.Path).row_index # 0
    /\ CellOf(e.Path).col_index # 0
    /\ CellOf(e.Path).col_type # ""
    /\ normalize_fragment(TextOf(e)) # <<>>


\* Faulty variant of RootUpdate: the title of an existing table is left as it is.
RootUpdate_NoTitle(table, e, hbl) ==
    IF e.attributes # EmptyMap THEN [table EXCEPT !.attributes = e.attributes] ELSE table

\* Lines 98-103: the element whose path is the table root itself.
RootUpdate(table, e, hbl) ==
    LET withAttrs == IF e.attributes # EmptyMap
                     THEN [table EXCEPT !.attributes = e.attributes] ELSE table
    IN IF withAttrs.title = NoTitle
       THEN [withAttrs EXCEPT !.title = current_heading_title(hbl)]
       ELSE withAttrs


\* Faulty variant of TableStep: the entry is built anew at every reference.
TableStep_Recreate(e, hbl, tbls) ==
    LET table_root == TableRoot(e.Path)
        table == NewTable(table_root, current_heading_title(hbl), e.Page)
    IN IF e.Path = table_root THEN RootUpdate(table, e, hbl)
       ELSE IF IsAccepted(e)
            THEN AddFragment(table, CellOf(e.Path), normalize_fragment(TextOf(e)))
            ELSE table

\* Lines 76-141: the table the element belongs to, after the element.
TableStep(e, hbl, tbls) ==
    LET table_root == TableRoot(e.Path)
        created == IF table_root \in DOMAIN tbls THEN tbls[table_root]
                   ELSE NewTable(table_root, current_heading_title(hbl), e.Page)
        table == IF created.page = NoPage /\ e.Page # NoPage
                 THEN [created EXCEPT !.page = e.Page] ELSE created
    IN IF e.Path = table_root THEN RootUpdate(table, e, hbl)
       ELSE IF IsAccepted(e)
            THEN AddFragment(table, CellOf(e.Path), normalize_fragment(TextOf(e)))
            ELSE table

\* ------------------------------------------------------------ assemble_rows
DeclaredCols(table) ==
    IF "NumCol" \in DOMAIN table.attributes THEN table.attributes["NumCol"] ELSE 0

\* Lines 152-155
ObservedCols(table) ==
    LET tops == {SetMax(DOMAIN table.cells[r]) :
                    r \in {x \in DOMAIN table.cells : DOMAIN table.cells[x] # {}}}
    IN IF tops = {} THEN 0 ELSE Max2(0, SetMax(tops))


\* Faulty variant of NumCols: a declared NumCol wins over the observed columns.
NumCols_DeclaredFirst(table) ==
    IF DeclaredCols(table) > 0 THEN DeclaredCols(table) ELSE ObservedCols(table)

\* Line 157
NumCols(table) == Max2(DeclaredCols(table), ObservedCols(table))

\* sorted(cells.keys())
RECURSIVE SortedSeq(_)
SortedSeq(S) ==
    IF S = {} THEN <<>> ELSE <<SetMin(S)>> \o SortedSeq(S \ {SetMin(S)})

\* Lines 167-171: the row vector of one row, num_cols wide.
RowValues(row_cells, num_cols) ==
    [col_idx \in 1..num_cols |->
        Strip(Join(IF col_idx \in DOMAIN row_cells THEN row_cells[col_idx] ELSE <<>>))]

\* Lines 165-180 without the header count: the rows before trimming.
OrderedRows(table) ==
    LET order == SortedSeq(DOMAIN table.cells)
    IN [i \in 1..Len(order) |-> RowValues(table.cells[order[i]], NumCols(table))]

\* Lines 174-175: meta.get("has_th") and not meta.get("has_td")
IsHeaderRow(table, row_index) ==
    /\ row_index \in DOMAIN table.row_meta
    /\ table.row_meta[row_index].has_th
    /\ ~table.row_meta[row_index].has_td


\* Faulty variant of HeaderScan: header_phase is never left, so every
\* header-only row counts wherever it is.
RECURSIVE HeaderScan_NoPhase(_, _, _, _)
HeaderScan_NoPhase(table, order, header_rows, header_phase) ==
    IF order = <<>> THEN header_rows
    ELSE HeaderScan_NoPhase(table, Tail(order),
             IF table.row_meta[Head(order)].has_th /\ ~table.row_meta[Head(order)].has_td
             THEN header_rows + 1 ELSE header_rows, header_phase)

\* Lines 162-179: the scan that counts header rows while header_phase holds.
RECURSIVE HeaderScan(_, _, _, _)
HeaderScan(table, order, header_rows, header_phase) ==
    IF order = <<>> THEN header_rows
    ELSE IF header_phase
         THEN IF IsHeaderRow(table, Head(order))
              THEN HeaderScan(table, Tail(order), header_rows + 1, TRUE)
              ELSE HeaderScan(table, Tail(order), header_rows, FALSE)
         ELSE HeaderScan(table, Tail(order), header_rows, header_phase)
HeaderRows(table) == HeaderScan(table, SortedSeq(DOMAIN table.cells), 0, TRUE)

\* Lines 183-186: 0-based index of the last column that is non-empty in some row.
LastNonEmpty(ordered_rows, num_cols) ==
    LET full == {col_idx \in 0..(num_cols - 1) :
                    \E i \in 1..Len(ordered_rows) : ordered_rows[i][col_idx + 1] # <<>>}
    IN IF full = {} THEN -1 ELSE SetMax(full)



\* Faulty variant of TrimRows: the slice ends one column early.
TrimRows_Exclusive(ordered_rows, num_cols) ==
    LET last_non_empty == LastNonEmpty(ordered_rows, num_cols)
    IN IF last_non_empty >= 0
       THEN [i \in 1..Len(ordered_rows) |-> SubSeq(ordered_rows[i], 1, last_non_empty)]
       ELSE [i \in 1..Len(ordered_rows) |-> <<>>]

\* Faulty variant of TrimRows: nothing is cut.
TrimRows_None(ordered_rows, num_cols) == ordered_rows

\* Lines 188-191
TrimRows(ordered_rows, num_cols) ==
    LET last_non_empty == LastNonEmpty(ordered_rows, num_cols)
    IN IF last_non_empty >= 0
       THEN [i \in 1..Len(ordered_rows) |-> SubSeq(ordered_rows[i], 1, last_non_empty + 1)]
       ELSE [i \in 1..Len(ordered_rows) |-> <<>>]

assemble_rows(table) ==
    IF NumCols(table) = 0 THEN [rows |-> <<>>, header_rows |-> 0]
    ELSE [rows |-> TrimRows(OrderedRows(table), NumCols(table)),
          header_rows |-> HeaderRows(table)]

\* ------------------------------------------------------------------ outputs
SampleDataRows == 5

Digits == <<"1", "2", "3", "4", "5", "6", "7", "8", "9">>
\* table.get("title") or f"Table {idx}"
TitleOrDefault(table, idx) ==
    IF table.title.set /\ table.title.val # <<>> THEN table.title.val
    ELSE <<"T", "a", "b", "l", "e", " ", Digits[idx]>>

\* print_tables: per table the header line's parts and what render_table is given;
\* grid tells the bordered grid from the "(no textual data)" placeholder.
TextBlock(table, idx) ==
    LET a == assemble_rows(table)
    IN [table_index |-> idx, title |-> TitleOrDefault(table, idx), page |-> table.page,
        rows |-> a.rows, header_rows |-> a.header_rows,
        grid |-> a.rows # <<>> /\ \E i \in 1..Len(a.rows) : Len(a.rows[i]) > 0]
write_tables_text(tbls) ==
    [kind |-> "tables", blocks |-> [i \in 1..Len(tbls) |-> TextBlock(tbls[i], i)]]

export_tables_to_json(tbls) ==
    [i \in 1..Len(tbls) |->
        [table_index |-> i, title |-> TitleOrDefault(tbls[i], i), page |-> tbls[i].page,
         attributes |-> tbls[i].attributes, rows |-> assemble_rows(tbls[i]).rows]]


\* Faulty variant of PreviewRows: the first rows are taken without counting the
\* header rows in.
PreviewRows_FirstFive(rows, header_rows) ==
    SubSeq(rows, 1, IF SampleDataRows < Len(rows) THEN SampleDataRows ELSE Len(rows))

\* Lines 308-313
PreviewRows(rows, header_rows) ==
    IF rows = <<>> THEN <<>>
    ELSE LET h == Max2(header_rows, 0)
             upto(k) == IF k < Len(rows) THEN k ELSE Len(rows)
         IN SubSeq(rows, 1, upto(h)) \o SubSeq(rows, h + 1, upto(h + SampleDataRows))
\* Lines 315-320
SampleAttributes(attributes) ==
    [key \in {"NumCol", "NumRow"} \cap DOMAIN attributes |-> attributes[key]]
export_tables_sample_json(tbls) ==
    [i \in 1..Len(tbls) |->
        LET a == assemble_rows(tbls[i])
        IN [table_index |-> i, title |-> TitleOrDefault(tbls[i], i), page |-> tbls[i].page,
            attributes |-> SampleAttributes(tbls[i].attributes),
            rows |-> PreviewRows(a.rows, a.header_rows)]]

\* ------------------------------------------------------------------- inputs
Idx(i) == IF i = 1 THEN 0 ELSE i          \* Table, Table[2]; TR, TR[2]; TD, TD[2]
Doc == Seg("Document", 0)
HName == <<"H1", "H2", "H3", "H4", "H5", "H6">>

TextA     == <<"a">>
TextB     == <<NBSP, "b", " ", "\n", "a", " ">>       \* normalises to "b a"
TextBlank == <<" ", NBSP>>                            \* normalises to ""

Elem(path, text, page, attrs) ==
    [hasPath |-> TRUE, Path |-> path, hasText |-> TRUE, Text |-> text,
     Page |-> page, attributes |-> attrs]
NoText(path, page) ==
    [hasPath |-> TRUE, Path |-> path, hasText |-> FALSE, Text |-> <<>>,
     Page |-> page, attributes |-> EmptyMap]
NoPathElem ==
    [hasPath |-> FALSE, Path |-> <<>>, hasText |-> TRUE, Text |-> TextA,
     Page |-> NoPage, attributes |-> EmptyMap]

HeadingElems ==
    {Elem(<<Doc, Seg(HName[L], 0)>>, t, NoPage, EmptyMap) :
        L \in 1..MaxLevel, t \in {TextA, TextB, TextBlank}}
    \cup {Elem(<<Doc, Seg(HName[1], 2)>>, TextA, NoPage, EmptyMap)}

AttrChoices ==
    {EmptyMap, [NumRow |-> 2], [NumCol |-> 1, NumRow |-> 2],
     [NumCol |-> MaxNumCol, SpaceAfter |-> 18]}
RootElems ==
    {[NoText(<<Doc, Seg("Table", Idx(t))>>, pg) EXCEPT !.attributes = a] :
        t \in 1..MaxTable, pg \in {NoPage, 0}, a \in AttrChoices}

CellPath(t, r, ty, c) ==
    <<Doc, Seg("Table", Idx(t)), Seg("TR", Idx(r)), Seg(ty, Idx(c)), Seg("P", 0)>>
CellElems ==
    {Elem(CellPath(t, r, ty, c), txt, 1, EmptyMap) :
        t \in 1..MaxTable, r \in 1..MaxRow, ty \in {"TD", "TH"}, c \in 1..MaxCol,
        txt \in {TextA, TextB}}

\* Elements under a table root that name no row, no typed cell or no text.
UnmatchedElems ==
    LET T == Seg("Table", 0)
    IN {Elem(<<Doc, T, Seg("TR", 0)>>, TextA, 1, EmptyMap),
        Elem(<<Doc, T, Seg("TD", 0), Seg("P", 0)>>, TextA, 1, EmptyMap),
        NoText(CellPath(1, 1, "TD", 1), 1),
        Elem(CellPath(1, 1, "TD", 1), TextBlank, 1, EmptyMap),
        Elem(CellPath(1, 1, "TH", 1), <<>>, 1, EmptyMap),
        Elem(<<Doc, T, Seg("TR", 0), JunkSeg("TD", 1, "x"), Seg("P", 0)>>, TextA, 1, EmptyMap)}

OtherElems == {Elem(<<Doc, Seg("P", 0)>>, TextA, 1, EmptyMap)}

Elements == HeadingElems \cup RootElems \cup CellElems \cup UnmatchedElems \cup OtherElems

\* ------------------------------------------------------------------ actions
Init ==
    /\ pc = "load"
    /\ error = ""
    /\ consumed = <<>>
    /\ heading_fragments = EmptyMap
    /\ heading_by_level = EmptyMap
    /\ tables = EmptyMap
    /\ table_order = <<>>
    /\ returned = <<>>
    /\ files = EmptyMap


\* Faulty variant of Fail: what was assembled so far is written out on the way
\* to the error.
Fail_Flush(what) ==
    /\ pc' = "failed"
    /\ error' = what
    /\ files' = Put(files, "tables.txt",
                    write_tables_text([i \in 1..Len(table_order) |-> tables[table_order[i]]]))
    /\ UNCHANGED <<heading_fragments, heading_by_level, tables, table_order, returned>>

Fail(what) ==
    /\ pc' = "failed"
    /\ error' = what
    /\ UNCHANGED <<heading_fragments, heading_by_level, tables, table_order,
                   returned, files>>

\* main, lines 358-359: extract.zip is not there.
LoadMissingZip == pc = "load" /\ Fail("FileNotFoundError") /\ UNCHANGED consumed
\* load_structured_data, lines 15-16: the archive holds no JSON member.
LoadNoJson == pc = "load" /\ Fail("ValueError") /\ UNCHANGED consumed
\* main, line 362: data["elements"] on a document without the key.
LoadNoElements == pc = "load" /\ Fail("KeyError: elements") /\ UNCHANGED consumed
\* main, lines 361-362: the document is loaded and the loop starts.
LoadOk ==
    /\ pc = "load"
    /\ pc' = "loop"
    /\ UNCHANGED <<error, consumed, heading_fragments, heading_by_level, tables,
                   table_order, returned, files>>

\* extract_tables, one iteration of the loop (lines 56-141) on element e.
ProcessElement(e) ==
    LET h == HeadingStep(e, heading_fragments, heading_by_level)
        table_root == TableRoot(e.Path)
    IN /\ consumed' = Append(consumed, e)
       /\ heading_fragments' = h.hf
       /\ heading_by_level' = h.hbl
       /\ IF TableMatch(e.Path) = 0
          THEN UNCHANGED <<tables, table_order>>
          ELSE /\ tables' = Put(tables, table_root, TableStep(e, h.hbl, tables))
               /\ table_order' = IF table_root \in DOMAIN tables THEN table_order
                                 ELSE Append(table_order, table_root)
       /\ UNCHANGED <<pc, error, returned, files>>
Step ==
    /\ pc = "loop"
    /\ Len(consumed) < MaxElems
    /\ \E e \in Elements : ProcessElement(e)

\* Line 57: element["Path"] on an element without the key.
MissingPath ==
    /\ pc = "loop"
    /\ Len(consumed) < MaxElems
    /\ consumed' = Append(consumed, NoPathElem)
    /\ Fail("KeyError: Path")

\* Line 143: the stream is exhausted and the list is returned; the locals of
\* extract_tables end with the call.
Return ==
    /\ pc = "loop"
    /\ pc' = "returned"
    /\ returned' = [i \in 1..Len(table_order) |-> tables[table_order[i]]]
    /\ consumed' = <<>>
    /\ heading_fragments' = EmptyMap
    /\ heading_by_level' = EmptyMap
    /\ tables' = EmptyMap
    /\ table_order' = <<>>
    /\ UNCHANGED <<error, files>>


\* Faulty variant of WriteNotice: the return after the notice is missing, so the
\* text output is written over it and the exports follow.
WriteNotice_NoReturn ==
    /\ pc = "returned"
    /\ returned = <<>>
    /\ files' = Put(files, "tables.txt", write_tables_text(returned))
    /\ pc' = "text_written"
    /\ UNCHANGED <<error, consumed, heading_fragments, heading_by_level, tables,
                   table_order, returned>>

\* main, lines 363-366
WriteNotice ==
    /\ pc = "returned"
    /\ returned = <<>>
    /\ files' = Put(files, "tables.txt", [kind |-> "notice", blocks |-> <<>>])
    /\ pc' = "done"
    /\ UNCHANGED <<error, consumed, heading_fragments, heading_by_level, tables,
                   table_order, returned>>
\* main, line 367
WriteTablesText ==
    /\ pc = "returned"
    /\ returned # <<>>
    /\ files' = Put(files, "tables.txt", write_tables_text(returned))
    /\ pc' = "text_written"
    /\ UNCHANGED <<error, consumed, heading_fragments, heading_by_level, tables,
                   table_order, returned>>
\* main, line 368
ExportJson ==
    /\ pc = "text_written"
    /\ files' = Put(files, "tables.json", export_tables_to_json(returned))
    /\ pc' = "json_written"
    /\ UNCHANGED <<error, consumed, heading_fragments, heading_by_level, tables,
                   table_order, returned>>
\* main, line 369
ExportSample ==
    /\ pc = "json_written"
    /\ files' = Put(files, "sample_tables.json", export_tables_sample_json(returned))
    /\ pc' = "done"
    /\ UNCHANGED <<error, consumed, heading_fragments, heading_by_level, tables,
                   table_order, returned>>

Next ==
    \/ LoadMissingZip
    \/ LoadNoJson
    \/ LoadNoElements
    \/ LoadOk
    \/ Step
    \/ MissingPath
    \/ Return
    \/ WriteNotice
    \/ WriteTablesText
    \/ ExportJson
    \/ ExportSample

Spec == Init /\ [][Next]_vars

\* ------------------------------------------------- exports of longer tables
\* extract_tables as a function of the whole stream: the loop of lines 56-141
\* run over elements from the state st, and the list of line 143.
RECURSIVE ExtractLoop(_, _)
ExtractLoop(elements, st) ==
    IF elements = <<>> THEN st
    ELSE LET e == Head(elements)
             h == HeadingStep(e, st.hf, st.hbl)
             table_root == TableRoot(e.Path)
         IN ExtractLoop(Tail(elements),
                IF TableMatch(e.Path) = 0
                THEN [st EXCEPT !.hf = h.hf, !.hbl = h.hbl]
                ELSE [hf |-> h.hf, hbl |-> h.hbl,
                      tables |-> Put(st.tables, table_root, TableStep(e, h.hbl, st.tables)),
                      order |-> IF table_root \in DOMAIN st.tables THEN st.order
                                ELSE Append(st.order, table_root)])
extract_tables(elements) ==
    LET st == ExtractLoop(elements, [hf |-> EmptyMap, hbl |-> EmptyMap,
                                     tables |-> EmptyMap, order |-> <<>>])
    IN [i \in 1..Len(st.order) |-> st.tables[st.order[i]]]

\* A stream of one table: its root with attributes a, then one cell per row
\* 1..n, a TH cell in the rows of H and a TD cell in the others, the row number
\* as its text.
RowStream(n, H, a) ==
    <<[NoText(<<Doc, Seg("Table", 0)>>, 0) EXCEPT !.attributes = a]>> \o
    [r \in 1..n |->
        Elem(CellPath(1, r, IF r \in H THEN "TH" ELSE "TD", 1), <<Digits[r]>>, 1, EmptyMap)]
ExportStreams ==
    {<<>>} \cup UNION {{RowStream(n, H, a) : H \in SUBSET (1..n), a \in AttrChoices} :
                          n \in 0..MaxSampleRows}

\* main after line 362, on what extract_tables returns for one of these streams.
InitExport ==
    /\ pc = "returned"
    /\ error = ""
    /\ consumed = <<>>
    /\ heading_fragments = EmptyMap
    /\ heading_by_level = EmptyMap
    /\ tables = EmptyMap
    /\ table_order = <<>>
    /\ returned \in {extract_tables(stream) : stream \in ExportStreams}
    /\ files = EmptyMap
NextExport ==
    \/ WriteNotice
    \/ WriteTablesText
    \/ ExportJson
    \/ ExportSample
SpecExport == InitExport /\ [][NextExport]_vars

\* ================================================================== claims
\* A loop iteration has just taken element' from the stream.
StepTaken == pc = "loop" /\ Len(consumed') = Len(consumed) + 1

CellKey(e) == <<CellOf(e.Path).col_type, CellOf(e.Path).col_index>>
RowOf(e) == CellOf(e.Path).row_index
RowsOf(table) == DOMAIN table.cells

\* The tables the run holds: the accumulators of the loop and the returned list.
AllTables == {tables[t] : t \in DOMAIN tables} \cup {returned[i] : i \in 1..Len(returned)}

\* ---- C1
\* The accepted element taken last repeats a (TD, 1) pair its row already holds.
C1_Repeat ==
    /\ StepTaken
    /\ IsAccepted(element')
    /\ CellKey(element') = <<"TD", 1>>
    /\ TableRoot(element'.Path) \in DOMAIN tables
    /\ RowOf(element') \in DOMAIN tables[TableRoot(element'.Path)].column_order
    /\ CellKey(element') \in DOMAIN tables[TableRoot(element'.Path)].column_order[RowOf(element')]

\* C1 as the claim states it: a second TD[1] element of the same table and row
\* resolves to a new sequential column position, distinct from the first one's,
\* and its fragment is not stored in the first one's cell.
C1_DistinctPositions ==
    [][C1_Repeat =>
        LET t == TableRoot(element'.Path)
            r == RowOf(element')
            k == Cardinality(DOMAIN tables[t].cells[r])
        IN /\ DOMAIN tables'[t].cells[r] = 1..(k + 1)
           /\ tables'[t].cells[r][k + 1] = <<normalize_fragment(element'.Text)>>
           /\ \A q \in 1..k : tables'[t].cells[r][q] = tables[t].cells[r][q]]_vars

\* C1 amended: a second TD[1] element of the same table and row resolves to the
\* column position the pair got when it was first seen in that row; its fragment
\* is appended after the earlier fragments of that cell, and no other cell and no
\* position of the row changes.
C1_SamePosition ==
    [][C1_Repeat =>
        LET t == TableRoot(element'.Path)
            r == RowOf(element')
            p == tables[t].column_order[r][<<"TD", 1>>]
        IN /\ tables'[t].column_order[r] = tables[t].column_order[r]
           /\ DOMAIN tables'[t].cells[r] = DOMAIN tables[t].cells[r]
           /\ tables'[t].cells[r][p] =
                 Append(tables[t].cells[r][p], normalize_fragment(element'.Text))
           /\ \A q \in DOMAIN tables[t].cells[r] \ {p} :
                 tables'[t].cells[r][q] = tables[t].cells[r][q]]_vars

\* Two TD[1] elements of one row have been taken: their cell holds both fragments.
C1_Witness ==
    /\ pc = "loop"
    /\ Len(consumed) >= 2
    /\ IsAccepted(element)
    /\ CellKey(element) = <<"TD", 1>>
    /\ LET row == tables[TableRoot(element.Path)].column_order[RowOf(element)]
           cell == tables[TableRoot(element.Path)].cells[RowOf(element)][row[<<"TD", 1>>]]
       IN Len(cell) = 2 /\ cell[1] # cell[2]

\* ---- C2
\* Positions in the stream of the accepted elements of table t.
AcceptedAt(t) ==
    {i \in 1..Len(consumed) :
        consumed[i].hasPath /\ IsAccepted(consumed[i]) /\ TableRoot(consumed[i].Path) = t}
\* The fragments of the elements at positions I, in stream order.
FragmentsAt(I) ==
    LET at == SortedSeq(I)
    IN [j \in 1..Len(at) |-> normalize_fragment(consumed[at[j]].Text)]

\* C2: after any prefix of the stream, in every table and row present,
\* column_order maps the pairs seen in the row one-to-one onto 1..k in first-seen
\* order, cells has exactly the keys 1..k, and each cell is the non-empty sequence
\* of the non-empty normalised fragments of its elements in arrival order.
C2_Accumulator ==
    pc \in {"loop", "failed"} =>
    \A t \in DOMAIN tables :
        LET table == tables[t]
            accepted == AcceptedAt(t)
        IN /\ DOMAIN table.cells = {RowOf(consumed[i]) : i \in accepted}
           /\ DOMAIN table.column_order = DOMAIN table.cells
           /\ \A r \in DOMAIN table.cells :
                LET order == table.column_order[r]
                    inRow == {i \in accepted : RowOf(consumed[i]) = r}
                    seen == {CellKey(consumed[i]) : i \in inRow}
                    with(key) == {i \in inRow : CellKey(consumed[i]) = key}
                    k == Cardinality(seen)
                IN /\ DOMAIN order = seen
                   /\ {order[key] : key \in seen} = 1..k
                   /\ \A x, y \in seen :
                        order[x] < order[y] <=> SetMin(with(x)) < SetMin(with(y))
                   /\ DOMAIN table.cells[r] = 1..k
                   /\ \A key \in seen :
                        LET cell == table.cells[r][order[key]]
                        IN /\ cell # <<>>
                           /\ \A j \in 1..Len(cell) :
                                cell[j] # <<>> /\ normalize_fragment(cell[j]) = cell[j]
                           /\ cell = FragmentsAt(with(key))

\* A row whose first pair has raw index 2 and whose second pair has raw index 1,
\* and a cell holding two fragments.
C2_Witness ==
    /\ pc = "loop"
    /\ \E t \in DOMAIN tables : \E r \in DOMAIN tables[t].cells :
         LET order == tables[t].column_order[r]
         IN /\ <<"TD", 2>> \in DOMAIN order /\ order[<<"TD", 2>>] = 1
            /\ <<"TH", 1>> \in DOMAIN order /\ order[<<"TH", 1>>] = 2
            /\ Len(tables[t].cells[r][1]) = 2

\* ---- C3
TitleBefore(t) == IF t \in DOMAIN tables THEN tables[t].title ELSE NoTitle
References(e, t) == TableMatch(e.Path) > 0 /\ TableRoot(e.Path) = t

\* C3 as the claim states it: a table's title is the heading title current at the
\* earliest element referencing the table (root or descendant) that is processed
\* while a heading is active; it stays none otherwise and is never replaced.
\* As a step rule: a set title is kept; an unset one becomes the current heading
\* title at any referencing element processed while a heading is active.
C3_AnyReference ==
    [][StepTaken /\ element'.hasPath =>
        \A t \in DOMAIN tables' :
            IF TitleBefore(t) # NoTitle THEN tables'[t].title = TitleBefore(t)
            ELSE IF References(element', t)
                 THEN tables'[t].title = current_heading_title(heading_by_level')
                 ELSE tables'[t].title = NoTitle]_vars

\* C3 amended: the title is the heading title current at the earliest element,
\* processed while a heading is active, that is either the first element to
\* reference the table (root or descendant) or a later element whose path is
\* the table root itself; later descendant elements never supply it; a title
\* once set is never replaced.
C3_FirstOrRoot ==
    [][StepTaken /\ element'.hasPath =>
        \A t \in DOMAIN tables' :
            IF TitleBefore(t) # NoTitle THEN tables'[t].title = TitleBefore(t)
            ELSE IF References(element', t) /\ (t \notin DOMAIN tables \/ element'.Path = t)
                 THEN tables'[t].title = current_heading_title(heading_by_level')
                 ELSE tables'[t].title = NoTitle]_vars

\* A table first referenced with no heading active, then a heading, then the
\* table's root element, which supplies the title.
C3_Witness ==
    /\ pc = "loop"
    /\ Len(consumed) = 3
    /\ TableMatch(consumed[1].Path) > 0
    /\ ~IsHeadingUpdate(consumed[1])
    /\ IsHeadingUpdate(consumed[2])
    /\ TableMatch(consumed[2].Path) = 0
    /\ consumed[3].Path = TableRoot(consumed[1].Path)
    /\ tables[consumed[3].Path].title = SomeTitle(normalize_fragment(consumed[2].Text))

\* ---- C4
HeaderOnly(table, r) == table.row_meta[r].has_th /\ ~table.row_meta[r].has_td

\* C4: header_row_count is the number of rows r such that r and every row with a
\* smaller index are header-only (has_th and not has_td), i.e. the length of the
\* longest header-only prefix in ascending row order.
C4_HeaderPrefix ==
    \A table \in AllTables :
        assemble_rows(table).header_rows =
            Cardinality({r \in RowsOf(table) :
                            \A x \in RowsOf(table) : x <= r => HeaderOnly(table, x)})

\* The text output of a table whose header-only row follows a data row: no
\* header row is counted.
C4_Witness ==
    /\ "tables.txt" \in DOMAIN files
    /\ \E i \in 1..Len(returned) :
         /\ \E r1, r2 \in RowsOf(returned[i]) :
              r1 < r2 /\ ~HeaderOnly(returned[i], r1) /\ HeaderOnly(returned[i], r2)
         /\ files["tables.txt"].blocks[i].header_rows = 0

\* ---- C5
\* C5: the rows assemble_rows returns all have one length, and every column of
\* them is non-empty in some row (so a matrix of empty columns has width 0).
C5_TrimmedMatrix ==
    \A table \in AllTables :
        LET rows == assemble_rows(table).rows
        IN /\ \A i, j \in 1..Len(rows) : Len(rows[i]) = Len(rows[j])
           /\ \A i \in 1..Len(rows) : \A c \in 1..Len(rows[i]) :
                \E j \in 1..Len(rows) : rows[j][c] # <<>>

\* An exported table of two rows that declares more columns than any row has:
\* the declared columns beyond the observed ones are cut from every row.
C5_Witness ==
    /\ "tables.json" \in DOMAIN files
    /\ \E i \in 1..Len(returned) :
         /\ DeclaredCols(returned[i]) > ObservedCols(returned[i])
         /\ Len(files["tables.json"][i].rows) = 2
         /\ \A j \in 1..2 :
              Len(files["tables.json"][i].rows[j]) = ObservedCols(returned[i])

\* ---- C6
\* The largest column position any row of the table holds (0 when none).
LargestPosition(table) ==
    SetMax({0} \cup UNION {DOMAIN table.cells[r] : r \in RowsOf(table)})
\* The place of row r among the rows in ascending order.
RowRank(table, r) == Cardinality({x \in RowsOf(table) : x <= r})

\* C6: every row vector is built with max(declared NumCol or 0, largest observed
\* position) columns; assemble_rows returns ([], 0) when that is zero; when the
\* declared NumCol is below the largest observed position, every observed cell
\* is in the returned row at its position, as its space-joined, stripped text.
C6_ColumnCount ==
    \A table \in AllTables :
        LET declared == IF "NumCol" \in DOMAIN table.attributes
                        THEN table.attributes["NumCol"] ELSE 0
            observed == LargestPosition(table)
            count == IF declared >= observed THEN declared ELSE observed
            built == OrderedRows(table)
            result == assemble_rows(table)
        IN /\ Len(built) = Cardinality(RowsOf(table))
           /\ \A i \in 1..Len(built) : Len(built[i]) = count
           /\ count = 0 => result = [rows |-> <<>>, header_rows |-> 0]
           /\ declared < observed =>
                \A r \in RowsOf(table) : \A p \in DOMAIN table.cells[r] :
                    /\ p <= Len(result.rows[RowRank(table, r)])
                    /\ result.rows[RowRank(table, r)][p] = Strip(Join(table.cells[r][p]))

\* An exported table that declares one column and holds two in a row: the rows
\* are two wide and the second cell is there.
C6_Witness ==
    /\ "tables.json" \in DOMAIN files
    /\ \E i \in 1..Len(returned) :
         /\ "NumCol" \in DOMAIN returned[i].attributes
         /\ returned[i].attributes["NumCol"] = 1
         /\ LargestPosition(returned[i]) = 2
         /\ Len(files["tables.json"][i].rows[1]) = 2
         /\ files["tables.json"][i].rows[1][2] # <<>>

\* ---- C7
\* C7: right after a heading element of level L with non-empty normalised text,
\* heading_by_level has no key above L, keeps its entries below L, and the
\* current heading title is the level-L title, the joined fragments of that
\* heading path.
C7_HeadingPurge ==
    [][(/\ StepTaken
        /\ element'.hasPath
        /\ element'.hasText
        /\ HeadingMatch(element'.Path) > 0
        /\ normalize_fragment(element'.Text) # <<>>) =>
        LET L == HeadingLevel(element'.Path[HeadingMatch(element'.Path)].name)
        IN /\ \A lvl \in DOMAIN heading_by_level' : lvl <= L
           /\ L \in DOMAIN heading_by_level'
           /\ \A lvl \in DOMAIN heading_by_level :
                lvl < L => /\ lvl \in DOMAIN heading_by_level'
                           /\ heading_by_level'[lvl] = heading_by_level[lvl]
           /\ heading_by_level'[L] = Join(heading_fragments'[HeadingPath(element'.Path)])
           /\ current_heading_title(heading_by_level') = SomeTitle(heading_by_level'[L])]_vars

\* A level-2, then a level-3, then a level-1 heading: only level 1 remains.
C7_Witness ==
    /\ pc = "loop"
    /\ Len(consumed) = 3
    /\ \A i \in 1..3 : IsHeadingUpdate(consumed[i])
    /\ consumed[1].Path[2].name = "H2"
    /\ consumed[2].Path[2].name = "H3"
    /\ consumed[3].Path[2].name = "H1"
    /\ DOMAIN heading_by_level = {1}

\* ---- C8
\* Positions in the stream of the elements whose path is or lies under root t.
ReferencesAt(t) ==
    {i \in 1..Len(consumed) : consumed[i].hasPath /\ References(consumed[i], t)}
IsPrefix(s, t) == Len(s) <= Len(t) /\ SubSeq(t, 1, Len(s)) = s

\* After any prefix: one entry per distinct root referenced so far, listed once,
\* in order of first reference.
C8_OnePerRoot ==
    pc \in {"loop", "failed"} =>
        /\ DOMAIN tables = {TableRoot(consumed[i].Path) :
                              i \in {j \in 1..Len(consumed) :
                                       consumed[j].hasPath /\ TableMatch(consumed[j].Path) > 0}}
        /\ {table_order[i] : i \in 1..Len(table_order)} = DOMAIN tables
        /\ Len(table_order) = Cardinality(DOMAIN tables)
        /\ \A t \in DOMAIN tables : tables[t].id = t
        /\ \A i, j \in 1..Len(table_order) :
             i < j => SetMin(ReferencesAt(table_order[i])) < SetMin(ReferencesAt(table_order[j]))
\* In a step: an entry appears only at the first reference to its root, at the
\* end of the order; an entry that exists is kept with all it holds (not removed,
\* not built anew); the returned list is the entries in creation order.
C8_Step ==
    /\ StepTaken =>
         /\ IsPrefix(table_order, table_order')
         /\ Len(table_order') <= Len(table_order) + 1
         /\ \A t \in DOMAIN tables' \ DOMAIN tables :
              /\ element'.hasPath /\ References(element', t)
              /\ table_order' = Append(table_order, t)
         /\ \A t \in DOMAIN tables :
              /\ t \in DOMAIN tables'
              /\ tables'[t].id = tables[t].id
              /\ \A r \in RowsOf(tables[t]) : \A p \in DOMAIN tables[t].cells[r] :
                   /\ r \in RowsOf(tables'[t])
                   /\ p \in DOMAIN tables'[t].cells[r]
                   /\ IsPrefix(tables[t].cells[r][p], tables'[t].cells[r][p])
              /\ tables[t].title # NoTitle => tables'[t].title = tables[t].title
              /\ tables[t].page # NoPage => tables'[t].page = tables[t].page
    /\ (pc = "loop" /\ pc' = "returned") =>
         /\ Len(returned') = Len(table_order)
         /\ \A i \in 1..Len(table_order) : returned'[i] = tables[table_order[i]]

\* C8: a table entry is created once per distinct root, at the first element
\* that is or lies under the root, and is never removed or built anew; the
\* returned list has one entry per distinct root, in order of first reference.
C8_TablesOnce == []C8_OnePerRoot /\ [][C8_Step]_vars

\* The second table is referenced first, then the first, then the second again:
\* two entries, the second table's first, and its cell is still there.
C8_Witness ==
    /\ pc = "loop"
    /\ Len(consumed) = 3
    /\ Len(table_order) = 2
    /\ IsAccepted(consumed[1])
    /\ TableRoot(consumed[1].Path) = table_order[1]
    /\ TableRoot(consumed[2].Path) = table_order[2]
    /\ TableRoot(consumed[3].Path) = table_order[1]
    /\ table_order[1] = <<Doc, Seg("Table", 2)>>
    /\ RowsOf(tables[table_order[1]]) # {}

\* ---- C9
\* The element lies under a table root and names no row, or no typed cell, or
\* has no Text key, or its text is empty after normalisation.
Unmatched(e) ==
    /\ e.hasPath
    /\ TableMatch(e.Path) > 0
    /\ Len(e.Path) > TableMatch(e.Path)
    /\ LET names == {parse_segment(e.Path[i])[1] :
                        i \in (TableMatch(e.Path) + 1)..Len(e.Path)}
       IN \/ "TR" \notin names
          \/ names \cap {"TD", "TH"} = {}
          \/ ~e.hasText
          \/ normalize_fragment(e.Text) = <<>>

\* C9: taking such an element does not end the run, and cells, row_meta and
\* column_order of every table are as before (empty for a table the element
\* has just created).
C9_UnmatchedSkipped ==
    [][StepTaken /\ Unmatched(element') =>
        /\ pc' = "loop"
        /\ error' = ""
        /\ \A t \in DOMAIN tables' :
             LET was == IF t \in DOMAIN tables THEN tables[t]
                        ELSE NewTable(t, NoTitle, NoPage)
             IN /\ tables'[t].cells = was.cells
                /\ tables'[t].row_meta = was.row_meta
                /\ tables'[t].column_order = was.column_order]_vars

\* A table holding a cell has taken a blank-text cell element and goes on.
C9_Witness ==
    /\ pc = "loop"
    /\ Len(consumed) >= 2
    /\ Unmatched(element)
    /\ element.hasText
    /\ CellOf(element.Path).row_index # 0
    /\ CellOf(element.Path).col_type # ""
    /\ RowsOf(tables[TableRoot(element.Path)]) # {}

\* ---- C10
\* C10: an element without Path ends the run with an error, as does a document
\* without elements, and no output file has been written when the run ends so.
C10_AbortWritesNothing ==
    /\ \A i \in 1..Len(consumed) :
         ~consumed[i].hasPath => pc = "failed" /\ error = "KeyError: Path"
    /\ (pc = "failed" /\ error \in {"KeyError: Path", "KeyError: elements"}) =>
         DOMAIN files = {}

\* The run ended on an element without Path after a table with a header row and
\* a data row had been assembled.
C10_Witness ==
    /\ pc = "failed"
    /\ error = "KeyError: Path"
    /\ ~element.hasPath
    /\ \E t \in DOMAIN tables : Cardinality(RowsOf(tables[t])) = 2
    /\ DOMAIN files = {}

\* ---- C11
\* extract_tables returns from the loop.
Returning == pc = "loop" /\ pc' = "returned"
\* No element of the stream put a fragment into a table.
NoCellInStream == \A i \in 1..Len(consumed) : ~IsAccepted(consumed[i])
\* No element of the stream has a path that is or lies under a table root.
NoTableInStream == \A i \in 1..Len(consumed) : TableMatch(consumed[i].Path) = 0
\* main's handling of the empty list: no error, and once main is done the only
\* file written is tables.txt, holding the notice.
EmptyListHandled ==
    (pc \in {"returned", "done"} /\ returned = <<>>) =>
        /\ error = ""
        /\ pc = "returned" => DOMAIN files = {}
        /\ pc = "done" => /\ DOMAIN files = {"tables.txt"}
                          /\ files["tables.txt"].kind = "notice"

\* C11 as the claim states it: when no element of the stream contributes a cell
\* to any table, extract_tables returns the empty list without raising, and main
\* writes the notice only.
C11_NoCellGivesEmpty ==
    /\ [][(Returning /\ NoCellInStream) => (returned' = <<>> /\ error' = "")]_vars
    /\ []EmptyListHandled

\* C11 amended: when no element of the stream has a path that is or lies under
\* a table root, extract_tables returns the empty list without raising; main
\* handles the empty list as a non-error outcome, writing only the notice to
\* tables.txt and none of the JSON outputs.
C11_NoTableGivesEmpty ==
    /\ [][(Returning /\ NoTableInStream) => (returned' = <<>> /\ error' = "")]_vars
    /\ [][(pc = "returned" /\ returned = <<>>) => pc' = "done"]_vars
    /\ []EmptyListHandled

\* main is done after an empty list: the notice is the only file.
C11_Witness ==
    /\ pc = "done"
    /\ returned = <<>>
    /\ error = ""
    /\ DOMAIN files = {"tables.txt"}
    /\ files["tables.txt"].kind = "notice"

\* ---- C12
\* C12: for every table, the sample export's rows are the first
\* min(number of rows, header_row_count + 5) rows of the full export, in the
\* same order, and its attributes are those of the keys NumCol and NumRow that
\* the table's attributes hold, with the same values.
C12_SamplePrefix ==
    "sample_tables.json" \in DOMAIN files =>
        /\ Len(files["sample_tables.json"]) = Len(returned)
        /\ Len(files["tables.json"]) = Len(returned)
        /\ \A i \in 1..Len(returned) :
             LET full == files["tables.json"][i]
                 sample == files["sample_tables.json"][i]
                 most == assemble_rows(returned[i]).header_rows + 5
                 n == IF Len(full.rows) < most THEN Len(full.rows) ELSE most
             IN /\ Len(sample.rows) = n
                /\ \A j \in 1..n : sample.rows[j] = full.rows[j]
                /\ DOMAIN sample.attributes =
                      DOMAIN returned[i].attributes \cap {"NumCol", "NumRow"}
                /\ \A key \in DOMAIN sample.attributes :
                      sample.attributes[key] = returned[i].attributes[key]
                /\ full.attributes = returned[i].attributes

\* A table of one header row and six data rows with an attribute besides NumCol:
\* the sample keeps six of the seven rows and drops that attribute.
C12_Witness ==
    /\ pc = "done"
    /\ Len(returned) = 1
    /\ assemble_rows(returned[1]).header_rows = 1
    /\ Len(files["tables.json"][1].rows) = 7
    /\ Len(files["sample_tables.json"][1].rows) = 6
    /\ "SpaceAfter" \in DOMAIN files["tables.json"][1].attributes
    /\ DOMAIN files["sample_tables.json"][1].attributes = {"NumCol"}

\* ---- C13
\* C13: every row assemble_rows returns is as wide as the largest column
\* position observed in the table, whatever NumCol declares; a table without an
\* accepted cell yields no rows; so a non-empty list of rows never holds an
\* empty row vector.
C13_WidthIsObserved ==
    \A table \in AllTables :
        LET rows == assemble_rows(table).rows
        IN /\ Len(rows) = Cardinality(RowsOf(table))
           /\ \A i \in 1..Len(rows) : Len(rows[i]) = LargestPosition(table)
           /\ RowsOf(table) = {} => rows = <<>>
           /\ \A i \in 1..Len(rows) : rows[i] # <<>>
           /\ (NumCols(table) > 0 /\ OrderedRows(table) # <<>>) =>
                LastNonEmpty(OrderedRows(table), NumCols(table)) >= 0

\* Two exported tables that both declare NumCol: one without any cell, which
\* has no rows, and one with a single cell, whose row is one wide.
C13_Witness ==
    /\ "tables.json" \in DOMAIN files
    /\ Len(returned) = 2
    /\ \E i, j \in 1..2 :
         /\ DeclaredCols(returned[i]) > 0
         /\ RowsOf(returned[i]) = {}
         /\ files["tables.json"][i].rows = <<>>
         /\ DeclaredCols(returned[j]) > 1
         /\ LargestPosition(returned[j]) = 1
         /\ Len(files["tables.json"][j].rows) = 1
         /\ Len(files["tables.json"][j].rows[1]) = 1

====
